---- MODULE Spec2Model ----
(***************************************************************************)
(* A model of the PageRangers API client (scripts/pagerangers.py).         *)
(*                                                                         *)
(* Python strings are sequences of symbols.  A symbol is one character     *)
(* ("a", "[", "{", "*") or one fixed word that no other symbol overlaps    *)
(* ("api_token", "https://h"); str.replace, str.split, "in", strip and     *)
(* int() work on these sequences as the Python functions work on           *)
(* characters.                                                             *)
(*                                                                         *)
(* A JSON value is a record [k, v]: k is the Python type, v its content.   *)
(* A dict is the sequence of its items in insertion order, keys unique.    *)
(* What a Python call yields is a JSON value or Raise(exception type).     *)
(***************************************************************************)
EXTENDS Integers, Sequences, FiniteSets, TLC

VARIABLES
    pc,          \* "call" before a function is applied, "done" after; "ready" in a process
    args,        \* the arguments of the last call, with what the network did in it
    ret,         \* what the last call returned or raised
    ctx,         \* the CommandContext: config, variables, timeout, debug
    config_file, \* the config document main() loaded ctx.config from
    environ,     \* os.environ, the PAGERANGERS_BASE_URL entry
    request,     \* the request the last call handed to urlopen, NoRequest when none
    stdout,      \* what the last call printed to sys.stdout
    stderr,      \* the lines the last call printed to sys.stderr
    calls_left   \* how many more calls the process makes

vars == <<pc, args, ret, ctx, config_file, environ, request, stdout, stderr, calls_left>>

process == <<ctx, config_file, environ, request, stdout, stderr, calls_left>>

---------------------------------------------------------------------------
(* JSON values                                                             *)

Str(s) == [k |-> "str", v |-> s]
Num(n) == [k |-> "num", v |-> n]
\* a float, in hundredths: Float(33) is 0.33
Float(h) == [k |-> "float", v |-> h]
Bool(b) == [k |-> "bool", v |-> b]
None == [k |-> "null", v |-> <<>>]
List(xs) == [k |-> "list", v |-> xs]
Dict(items) == [k |-> "dict", v |-> items]
Item(key, val) == [key |-> key, val |-> val]
\* a message is a format with the strings put into it, in order
Msg(fmt, parts) == [fmt |-> fmt, parts |-> parts]
RaiseMsg(exc, fmt, parts) == [k |-> "raise", v |-> [type |-> exc, msg |-> Msg(fmt, parts)]]
Raise(exc) == RaiseMsg(exc, "", <<>>)
Pending == [k |-> "pending", v |-> <<>>]
Unset == [k |-> "unset", v |-> <<>>]
NoRequest == [k |-> "norequest", v |-> <<>>]

\* the process variables while a function is evaluated on its own
NoProcess ==
    /\ ctx = [config |-> None, variables |-> <<>>, timeout |-> 0, debug |-> FALSE]
    /\ config_file = None
    /\ environ = Unset
    /\ request = NoRequest
    /\ stdout = <<>>
    /\ stderr = <<>>
    /\ calls_left = 0

IsStr(x) == x.k = "str"
IsList(x) == x.k = "list"
IsDict(x) == x.k = "dict"
IsRaise(x) == x.k = "raise"
IsNum(x) == x.k = "num"

\* Python truth value: None, False, 0, "", [] and {} are false
Truthy(x) ==
    CASE x.k = "null" -> FALSE
      [] x.k = "bool" -> x.v
      [] x.k \in {"num", "float"} -> x.v # 0
      [] x.k \in {"str", "list", "dict"} -> x.v # <<>>
      [] OTHER -> TRUE

\* dict.get(key): the value of the item with that key, None when there is none
RECURSIVE ItemsGet(_, _)
ItemsGet(items, key) ==
    IF items = <<>> THEN None
    ELSE IF Head(items).key = key THEN Head(items).val
    ELSE ItemsGet(Tail(items), key)

DictGet(d, key) == ItemsGet(d.v, key)

HasKey(d, key) == \E i \in 1..Len(d.v) : d.v[i].key = key

\* dict.get(key, default): the default only when the key is not there
DictGetDefault(d, key, default) == IF HasKey(d, key) THEN DictGet(d, key) ELSE default

\* d[key] = val: in place for a key that is there, appended otherwise
ItemsSet(items, key, val) ==
    IF \E i \in 1..Len(items) : items[i].key = key
    THEN [i \in 1..Len(items) |-> IF items[i].key = key THEN Item(key, val) ELSE items[i]]
    ELSE Append(items, Item(key, val))

\* d.update(other)
RECURSIVE ItemsUpdate(_, _)
ItemsUpdate(items, other) ==
    IF other = <<>> THEN items
    ELSE ItemsUpdate(ItemsSet(items, Head(other).key, Head(other).val), Tail(other))

\* d.setdefault(key, val)
ItemsSetDefault(items, key, val) ==
    IF \E i \in 1..Len(items) : items[i].key = key THEN items ELSE Append(items, Item(key, val))

---------------------------------------------------------------------------
(* Strings                                                                 *)

StartsWith(s, p) == Len(s) >= Len(p) /\ SubSeq(s, 1, Len(p)) = p

\* needle in s
Contains(s, needle) ==
    \E i \in 0..(Len(s) - Len(needle)) : SubSeq(s, i + 1, i + Len(needle)) = needle

EndsWith(s, p) == Len(s) >= Len(p) /\ SubSeq(s, Len(s) - Len(p) + 1, Len(s)) = p

\* s.replace(old, new): leftmost non-overlapping occurrences; an empty old
\* matches before every character and at the end
RECURSIVE replace(_, _, _)
replace(s, old, new) ==
    IF old = <<>> THEN
        IF s = <<>> THEN new ELSE new \o <<Head(s)>> \o replace(Tail(s), old, new)
    ELSE IF Len(s) < Len(old) THEN s
    ELSE IF StartsWith(s, old) THEN
        new \o replace(SubSeq(s, Len(old) + 1, Len(s)), old, new)
    ELSE <<Head(s)>> \o replace(Tail(s), old, new)

\* index of the first c in s, 0 when there is none
RECURSIVE Find(_, _, _)
Find(s, c, i) ==
    IF i > Len(s) THEN 0 ELSE IF s[i] = c THEN i ELSE Find(s, c, i + 1)

\* s.split(c)
RECURSIVE split(_, _)
split(s, c) ==
    LET i == Find(s, c, 1)
    IN IF i = 0 THEN <<s>>
       ELSE <<SubSeq(s, 1, i - 1)>> \o split(SubSeq(s, i + 1, Len(s)), c)

\* s.split(c, 1)
split1(s, c) ==
    LET i == Find(s, c, 1)
    IN IF i = 0 THEN <<s>>
       ELSE <<SubSeq(s, 1, i - 1), SubSeq(s, i + 1, Len(s))>>

Digits == {"0", "1", "2", "3"}

DigitVal(c) == CASE c = "0" -> 0 [] c = "1" -> 1 [] c = "2" -> 2 [] c = "3" -> 3

RECURSIVE DigitsVal(_, _)
DigitsVal(s, acc) ==
    IF s = <<>> THEN acc ELSE DigitsVal(Tail(s), 10 * acc + DigitVal(Head(s)))

\* int(s) on the path alphabet: an optional sign and one or more digits; anything
\* else is a ValueError
ParseInt(s) ==
    LET signed == s # <<>> /\ Head(s) \in {"-", "+"}
        body == IF signed THEN Tail(s) ELSE s
    IN IF body = <<>> \/ \E i \in 1..Len(body) : body[i] \notin Digits
       THEN [ok |-> FALSE, val |-> 0]
       ELSE [ok |-> TRUE,
             val |-> IF signed /\ Head(s) = "-" THEN 0 - DigitsVal(body, 0)
                     ELSE DigitsVal(body, 0)]

---------------------------------------------------------------------------
(* get_by_path                                                             *)

\* current[idx] for a list: Python counts a negative idx from the end and raises
\* IndexError below -len
ListIndex(xs, idx) ==
    IF idx >= 0 THEN xs[idx + 1]
    ELSE IF idx >= 0 - Len(xs) THEN xs[Len(xs) + idx + 1]
    ELSE Raise("IndexError")

\* the guard of line 106
IndexGuard(current, idx) == IsList(current) /\ idx < Len(current.v)

\* one bracket segment name[idx_part], lines 100-106
BracketStep(current, part) ==
    LET pieces == split1(SubSeq(part, 1, Len(part) - 1), "[")
        name == pieces[1]
        idx_part == pieces[2]
        named == IF name # <<>>
                 THEN (IF IsDict(current) THEN DictGet(current, name) ELSE None)
                 ELSE current
        idx == ParseInt(idx_part)
    IN IF named = None THEN [return |-> TRUE, value |-> None]
       ELSE IF ~idx.ok THEN [return |-> TRUE, value |-> Raise("ValueError")]
       ELSE IF IndexGuard(named, idx.val)
            THEN LET item == ListIndex(named.v, idx.val)
                 IN [return |-> IsRaise(item), value |-> item]
            ELSE [return |-> FALSE, value |-> None]

\* the part is a dot next to a dot, or a leading or trailing dot
NeverSkip(part) == FALSE

\* line 97
SkipPart(part) == part = <<>>

\* the loop body over the remaining parts, lines 96-111
RECURSIVE Walk(_, _)
Walk(current, parts) ==
    IF parts = <<>> THEN current
    ELSE LET part == Head(parts)
         IN IF SkipPart(part) THEN Walk(current, Tail(parts))
            ELSE IF Contains(part, <<"[">>) /\ EndsWith(part, <<"]">>) THEN
                LET step == BracketStep(current, part)
                IN IF step.return THEN step.value ELSE Walk(step.value, Tail(parts))
            ELSE IF IsDict(current) THEN Walk(DictGet(current, part), Tail(parts))
            ELSE None

get_by_path(data, path) ==
    IF path = <<>> THEN data ELSE Walk(data, split(path, "."))

---------------------------------------------------------------------------
(* Inputs of get_by_path                                                   *)

MaxSegs == 2

Segments ==
    { <<>>, <<"a">>, <<"b">>,
      <<"a", "[", "0", "]">>, <<"a", "[", "1", "]">>, <<"a", "[", "2", "]">>,
      <<"a", "[", "-", "1", "]">>, <<"a", "[", "-", "3", "]">>,
      <<"a", "[", "x", "]">>, <<"a", "[", "]">>,
      <<"a", "[", "0", "]", "[", "1", "]">>,
      <<"[", "0", "]">>, <<"[", "1", "]">>, <<"b", "[", "0", "]">> }

RECURSIVE Join(_, _)
Join(segs, sep) ==
    IF segs = <<>> THEN <<>>
    ELSE IF Len(segs) = 1 THEN segs[1]
    ELSE segs[1] \o sep \o Join(Tail(segs), sep)

\* the segments of the longer paths, with dots next to each other
DotSegments == { <<>>, <<"a">>, <<"b">>, <<"a", "[", "1", "]">> }

Paths ==
    {<<>>}
    \cup { Join(segs, <<".">>) : segs \in UNION { [1..n -> Segments] : n \in 1..MaxSegs } }
    \cup { Join(segs, <<".">>) : segs \in [1..(MaxSegs + 1) -> DotSegments] }

Leaf1 == Str(<<"p">>)
Leaf2 == Str(<<"q">>)

Datas ==
    { Dict(<<Item(<<"a">>, List(<<Leaf1, Leaf2>>))>>),
      Dict(<<Item(<<"a">>, List(<<List(<<Leaf1, Leaf2>>), Dict(<<Item(<<"b">>, Leaf2)>>)>>)),
             Item(<<"b">>, List(<<>>))>>),
      Dict(<<Item(<<"a">>, Dict(<<Item(<<"b">>, List(<<Leaf1>>))>>))>>),
      Dict(<<Item(<<"a">>, Leaf1), Item(<<"b">>, None)>>),
      List(<<Leaf1, List(<<Leaf2>>)>>),
      Leaf1,
      Num(0),
      None }

InitPath ==
    /\ pc = "call"
    /\ args \in { [data |-> d, path |-> p] : d \in Datas, p \in Paths }
    /\ ret = Pending
    /\ NoProcess

GetByPath ==
    /\ pc = "call"
    /\ ret' = get_by_path(args.data, args.path)
    /\ pc' = "done"
    /\ UNCHANGED <<args, process>>

NextPath == GetByPath

SpecPath == InitPath /\ [][NextPath]_vars

---------------------------------------------------------------------------
(* Claims about get_by_path                                                *)

\* the non-empty parts of a path that the code reads as name[idx_part]
BracketParts(path) ==
    { part \in { split(path, ".")[i] : i \in 1..Len(split(path, ".")) } :
        part # <<>> /\ Contains(part, <<"[">>) /\ EndsWith(part, <<"]">>) }

IdxPart(part) == split1(SubSeq(part, 1, Len(part) - 1), "[")[2]

NamePart(part) == split1(SubSeq(part, 1, Len(part) - 1), "[")[1]

HasNonIntegerBracket(path) ==
    \E part \in BracketParts(path) : ~ParseInt(IdxPart(part)).ok

\* C1: for every data and every path with a bracket segment whose content is not
\* an integer (name[x], name[], name[0][1]) get_by_path returns None and does
\* not raise.
C1_NonIntegerBracketIsAbsent ==
    (pc = "done" /\ HasNonIntegerBracket(args.path)) => ret = None

\* a path that is one bracket segment with an integer index, applied to a list:
\* the list the index is applied to
IndexedList(data, path) ==
    LET part == path
        name == NamePart(part)
    IN IF name = <<>> THEN data
       ELSE IF IsDict(data) THEN DictGet(data, name) ELSE None

IsOneIntegerBracket(path) ==
    /\ ~Contains(path, <<".">>)
    /\ BracketParts(path) = {path}
    /\ ParseInt(IdxPart(path)).ok

\* C2: an integer index i written in a bracket segment is applied to a sequence s
\* only when 0 <= i < len(s), yielding s[i]; every other integer, negative ones
\* included, gives None, and nothing is raised.
C2_IndexOnlyInBounds ==
    (/\ pc = "done"
     /\ IsOneIntegerBracket(args.path)
     /\ IsList(IndexedList(args.data, args.path)))
    => LET s == IndexedList(args.data, args.path).v
           i == ParseInt(IdxPart(args.path)).val
       IN ret = IF 0 <= i /\ i < Len(s) THEN s[i + 1] ELSE None

\* the path with its empty segments removed
RemoveEmpty(path) ==
    Join(SelectSeq(split(path, "."), LAMBDA part : part # <<>>), <<".">>)

OnlyDots(path) == path # <<>> /\ \A i \in 1..Len(path) : path[i] = "."

\* C11: get_by_path with the empty path returns data unchanged, a path made only
\* of dots returns data, and a path with leading, trailing or consecutive dots
\* resolves to the result of the path with its empty segments removed.
C11_EmptySegmentsSkipped ==
    pc = "done"
    => /\ (args.path = <<>> \/ OnlyDots(args.path)) => ret = args.data
       /\ ret = get_by_path(args.data, RemoveEmpty(args.path))

\* a path with two dots next to each other resolved to a value of the data
C11_Witness ==
    /\ pc = "done"
    /\ args.path = <<"a", ".", ".", "b">>
    /\ ret = List(<<Leaf1>>)

\* an integer as the spec writes an index: an optional minus sign and digits
IsInteger(s) ==
    LET body == IF s # <<>> /\ Head(s) = "-" THEN Tail(s) ELSE s
    IN body # <<>> /\ \A i \in 1..Len(body) : body[i] \in Digits

IntegerVal(s) ==
    IF Head(s) = "-" THEN 0 - DigitsVal(Tail(s), 0) ELSE DigitsVal(s, 0)

HasBracket(seg) == \E i \in 1..Len(seg) : seg[i] \in {"[", "]"}

\* a segment name[i] or [i]: one "[", the closing "]" last, an integer between
IsIndexed(seg) ==
    LET open == Find(seg, "[", 1)
    IN /\ open # 0
       /\ seg[Len(seg)] = "]"
       /\ ~HasBracket(SubSeq(seg, 1, open - 1))
       /\ IsInteger(SubSeq(seg, open + 1, Len(seg) - 1))

\* a well-formed path: dot-separated segments, each a plain name, name[i] or [i]
WellFormed(path) ==
    \A i \in 1..Len(split(path, ".")) :
        LET seg == split(path, ".")[i]
        IN seg = <<>> \/ ~HasBracket(seg) \/ IsIndexed(seg)

\* the key looked up in a mapping; absent for anything else and for a missing key
RefLookup(current, name) ==
    IF IsDict(current) /\ HasKey(current, name) THEN DictGet(current, name) ELSE None

\* the index applied to a sequence; absent for anything else and out of bounds
RefIndex(current, i) ==
    IF IsList(current) /\ 0 <= i /\ i < Len(current.v) THEN current.v[i + 1] ELSE None

\* one segment of the reference walk
RefStep(current, seg) ==
    IF ~HasBracket(seg) THEN RefLookup(current, seg)
    ELSE LET open == Find(seg, "[", 1)
             name == SubSeq(seg, 1, open - 1)
             i == IntegerVal(SubSeq(seg, open + 1, Len(seg) - 1))
         IN RefIndex(IF name = <<>> THEN current ELSE RefLookup(current, name), i)

\* the reference walk: absent as soon as one segment is absent
RECURSIVE RefWalk(_, _)
RefWalk(current, segs) ==
    IF segs = <<>> THEN current
    ELSE IF Head(segs) = <<>> THEN RefWalk(current, Tail(segs))
    ELSE IF current = None THEN None
    ELSE RefWalk(RefStep(current, Head(segs)), Tail(segs))

\* C12: for every JSON value and every well-formed path get_by_path equals the
\* segment-by-segment reference walk, which is absent (None) as soon as a name
\* meets a value that is not a mapping, a key is missing or an indexed value is
\* not a sequence; nothing is raised.
C12_EqualsReferenceWalk ==
    (pc = "done" /\ WellFormed(args.path))
    => ret = RefWalk(args.data, split(args.path, "."))

\* the same for the well-formed paths whose indices are not negative
C12_NonNegativeIndices ==
    (/\ pc = "done"
     /\ WellFormed(args.path)
     /\ ~Contains(args.path, <<"-">>))
    => ret = RefWalk(args.data, split(args.path, "."))

---------------------------------------------------------------------------
(* substitute                                                              *)

\* f"{{{key}}}"
Placeholder(key) == <<"{">> \o key \o <<"}">>

\* lines 80-83: one str.replace per item of variables, in iteration order, each on
\* the result of the one before
RECURSIVE SubstituteStr(_, _)
SubstituteStr(result, variables) ==
    IF variables = <<>> THEN result
    ELSE SubstituteStr(replace(result, Placeholder(Head(variables).key), Head(variables).val),
                       Tail(variables))

\* the key with its placeholders replaced
KeySubstituted(key, variables) == SubstituteStr(key, variables)

\* line 85: the key of an item goes into the new dict as it is
NewKey(key, variables) == key

RECURSIVE substitute(_, _)
substitute(value, variables) ==
    IF IsStr(value) THEN Str(SubstituteStr(value.v, variables))
    ELSE IF IsDict(value) THEN
        Dict([i \in 1..Len(value.v) |->
                Item(NewKey(value.v[i].key, variables),
                     substitute(value.v[i].val, variables))])
    ELSE IF IsList(value) THEN
        List([i \in 1..Len(value.v) |-> substitute(value.v[i], variables)])
    ELSE value

---------------------------------------------------------------------------
(* Inputs of substitute                                                    *)

MaxPieces == 2

Pieces ==
    { Placeholder(<<"a">>), Placeholder(<<"b">>), Placeholder(<<"c">>),
      <<"x">>, <<"{">>, <<"a", "}">> }

Templates ==
    {<<>>} \cup
    { Join(ps, <<>>) : ps \in UNION { [1..n -> Pieces] : n \in 1..MaxPieces } }

VariableSets ==
    { <<>>,
      <<Item(<<"a">>, <<"1">>), Item(<<"b">>, <<"2">>)>>,
      <<Item(<<"a">>, Placeholder(<<"b">>)), Item(<<"b">>, <<"X">>)>>,
      <<Item(<<"b">>, <<"X">>), Item(<<"a">>, Placeholder(<<"b">>))>>,
      <<Item(<<"a">>, <<>>), Item(<<"c">>, Placeholder(<<"c">>))>>,
      <<Item(<<"a">>, <<"{">>), Item(<<"b">>, <<"b", "}">>)>> }

StructuredValues ==
    { Num(1), None, Bool(TRUE),
      List(<<Str(Placeholder(<<"a">>)), Num(1), List(<<Str(Placeholder(<<"b">>))>>)>>),
      Dict(<<Item(Placeholder(<<"a">>), Str(Placeholder(<<"a">>))),
             Item(<<"q">>, Dict(<<Item(<<"k">>, Str(<<"x">> \o Placeholder(<<"b">>)))>>))>>) }

InitSubst ==
    /\ pc = "call"
    /\ args \in { [value |-> x, variables |-> vs] :
                    x \in { Str(t) : t \in Templates } \cup StructuredValues,
                    vs \in VariableSets }
    /\ ret = Pending
    /\ NoProcess

Substitute ==
    /\ pc = "call"
    /\ ret' = substitute(args.value, args.variables)
    /\ pc' = "done"
    /\ UNCHANGED <<args, process>>

NextSubst == Substitute

SpecSubst == InitSubst /\ [][NextSubst]_vars

---------------------------------------------------------------------------
(* Claims about substitute                                                 *)

\* the item of variables whose placeholder starts s, as a one-element sequence, or <<>>
RECURSIVE MatchAt(_, _)
MatchAt(s, variables) ==
    IF variables = <<>> THEN <<>>
    ELSE IF StartsWith(s, Placeholder(Head(variables).key)) THEN <<Head(variables)>>
    ELSE MatchAt(s, Tail(variables))

\* the single simultaneous replacement: one left-to-right pass over the original
\* template, substituted text is never read again
RECURSIVE SimultaneousReplace(_, _)
SimultaneousReplace(s, variables) ==
    IF s = <<>> THEN <<>>
    ELSE LET m == MatchAt(s, variables)
         IN IF m = <<>> THEN <<Head(s)>> \o SimultaneousReplace(Tail(s), variables)
            ELSE m[1].val \o
                 SimultaneousReplace(SubSeq(s, Len(m[1].key) + 3, Len(s)), variables)

\* C4: substitute on a string equals the single simultaneous replacement of the
\* placeholders of the original template: a placeholder that appears only inside a
\* substituted value stays literally in the output.
C4_NoRescanOfSubstitutedText ==
    (pc = "done" /\ IsStr(args.value))
    => ret = Str(SimultaneousReplace(args.value.v, args.variables))

Keys(variables) == { variables[i].key : i \in 1..Len(variables) }

\* s starts with an occurrence of a placeholder {name}
StartsWithPlaceholder(s) ==
    Len(s) >= 3 /\ s[1] = "{" /\ s[2] \notin {"{", "}"} /\ s[3] = "}"

\* every occurrence of {key} in the template replaced by vars[key], every {name}
\* whose name is not a key copied as it stands
RECURSIVE ReplaceEveryOccurrence(_, _)
ReplaceEveryOccurrence(s, variables) ==
    IF s = <<>> THEN <<>>
    ELSE IF StartsWithPlaceholder(s) THEN
        (IF <<s[2]>> \in Keys(variables)
         THEN ItemsGet(variables, <<s[2]>>)
         ELSE SubSeq(s, 1, 3))
        \o ReplaceEveryOccurrence(SubSeq(s, 4, Len(s)), variables)
    ELSE <<Head(s)>> \o ReplaceEveryOccurrence(Tail(s), variables)

\* C13: substitute on a string gives the string with every occurrence of {key}
\* replaced by vars[key], for each key of the variable set, and with every
\* placeholder whose name is not a key left verbatim.
C13_EveryOccurrenceReplaced ==
    (pc = "done" /\ IsStr(args.value))
    => ret = Str(ReplaceEveryOccurrence(args.value.v, args.variables))

NoBrace(s) == \A i \in 1..Len(s) : s[i] \notin {"{", "}"}

\* a template made of placeholders and of text without braces
RECURSIVE IsPlainTemplate(_)
IsPlainTemplate(s) ==
    IF s = <<>> THEN TRUE
    ELSE IF StartsWithPlaceholder(s) THEN IsPlainTemplate(SubSeq(s, 4, Len(s)))
    ELSE Head(s) \notin {"{", "}"} /\ IsPlainTemplate(Tail(s))

\* the same where no value of the variable set and no text of the template
\* between the placeholders holds a brace
C13_ValuesWithoutBraces ==
    (/\ pc = "done"
     /\ IsStr(args.value)
     /\ IsPlainTemplate(args.value.v)
     /\ \A i \in 1..Len(args.variables) : NoBrace(args.variables[i].val))
    => ret = Str(ReplaceEveryOccurrence(args.value.v, args.variables))

\* C14: substitute preserves structure: a mapping keeps its keys, unsubstituted
\* and in order, with each value substituted; a sequence keeps its length and
\* order with each element substituted; numbers, booleans and null come back
\* unchanged.
C14_StructurePreserved ==
    pc = "done"
    => LET value == args.value
       IN CASE IsDict(value) ->
                 /\ IsDict(ret)
                 /\ Len(ret.v) = Len(value.v)
                 /\ \A i \in 1..Len(value.v) :
                        /\ ret.v[i].key = value.v[i].key
                        /\ ret.v[i].val = substitute(value.v[i].val, args.variables)
            [] IsList(value) ->
                 /\ IsList(ret)
                 /\ Len(ret.v) = Len(value.v)
                 /\ \A i \in 1..Len(value.v) :
                        ret.v[i] = substitute(value.v[i], args.variables)
            [] IsStr(value) -> IsStr(ret)
            [] OTHER -> ret = value

\* a mapping whose first key holds a placeholder of the variable set: the key is
\* kept and the value under it is substituted
C14_Witness ==
    /\ pc = "done"
    /\ IsDict(args.value)
    /\ args.value.v[1] = Item(Placeholder(<<"a">>), Str(Placeholder(<<"a">>)))
    /\ <<"a">> \in Keys(args.variables)
    /\ ret.v[1].key = Placeholder(<<"a">>)
    /\ ret.v[1].val # args.value.v[1].val

---------------------------------------------------------------------------
(* request_json                                                            *)

HTTP_UNAUTHORIZED == 401
HTTP_FORBIDDEN == 403
HTTP_TOO_MANY_REQUESTS == 429
DEFAULT_TIMEOUT == 30

\* What urllib.request.urlopen and response.read() do with a request: raise
\* HTTPError(code) with a body, raise URLError(reason), or give the bytes of a 2xx
\* response.  Bytes are the serialisation of a JSON value ("json"), other UTF-8 text
\* ("text") or bytes that are not UTF-8 ("bad_utf8").
HTTPError(code, payload) == [k |-> "HTTPError", code |-> code, payload |-> payload, reason |-> <<>>]
URLError(reason) == [k |-> "URLError", code |-> 0, payload |-> None, reason |-> reason]
Response(code, payload) == [k |-> "response", code |-> code, payload |-> payload, reason |-> <<>>]

JsonBytes(value) == [k |-> "json", v |-> value]
TextBytes(text) == [k |-> "text", v |-> text]
BadUtf8 == [k |-> "bad_utf8", v |-> <<>>]

\* bytes.decode("utf-8", errors="replace") of an error body
DecodeReplace(payload) ==
    CASE payload.k = "text" -> payload.v
      [] payload.k = "bad_utf8" -> <<"\\ufffd">>

\* json.loads(payload): JSONDecodeError for text that is not JSON; bytes that are
\* not UTF-8 fail in bytes.decode with UnicodeDecodeError, which is a ValueError
\* and no JSONDecodeError
json_loads(payload) ==
    CASE payload.k = "json" -> payload.v
      [] payload.k = "text" -> Raise("JSONDecodeError")
      [] payload.k = "bad_utf8" -> Raise("UnicodeDecodeError")

DefaultHeaders ==
    <<Item(<<"Accept">>, Str(<<"application/json">>)),
      Item(<<"User-Agent">>, Str(<<"PageRangers-Skill/1.0">>))>>

\* lines 146-153: the urllib Request
BuildRequest(method, url, headers, body, timeout) ==
    LET merged == ItemsUpdate(DefaultHeaders, IF Truthy(headers) THEN headers.v ELSE <<>>)
    IN [k |-> "request",
        v |-> [method |-> method,
               url |-> url,
               data |-> IF body # None THEN JsonBytes(body) ELSE None,
               headers |-> IF body # None
                           THEN ItemsSetDefault(merged, <<"Content-Type">>,
                                                Str(<<"application/json">>))
                           ELSE merged,
               timeout |-> timeout]]

\* lines 157-165: except urllib.error.HTTPError
OnHTTPError(exc) ==
    IF exc.code = HTTP_UNAUTHORIZED THEN
        RaiseMsg("RuntimeError", "Authentication failed. Check PAGERANGERS_API_TOKEN.", <<>>)
    ELSE IF exc.code = HTTP_FORBIDDEN THEN
        RaiseMsg("RuntimeError", "Access denied. Check PAGERANGERS_PROJECT_HASH.", <<>>)
    ELSE IF exc.code = HTTP_TOO_MANY_REQUESTS THEN
        RaiseMsg("RuntimeError", "Rate limit exceeded. Try again later.", <<>>)
    ELSE RaiseMsg("RuntimeError", "HTTP {}: {}",
                  <<<<ToString(exc.code)>>, DecodeReplace(exc.payload)>>)

\* lines 166-167: except urllib.error.URLError
OnURLError(exc) == RaiseMsg("RuntimeError", "Connection error: {}", <<exc.reason>>)

\* the handlers in the other order: URLError catches HTTPError too
ClassifyURLErrorFirst(urlopen) ==
    IF urlopen.k \in {"HTTPError", "URLError"} THEN OnURLError(urlopen)
    ELSE LET parsed == json_loads(urlopen.payload)
         IN IF IsRaise(parsed) /\ parsed.v.type = "JSONDecodeError"
            THEN RaiseMsg("RuntimeError", "Invalid JSON response from API", <<>>)
            ELSE parsed

\* lines 154-172: the try blocks.  HTTPError is a subclass of URLError and its
\* handler comes first
Classify(urlopen) ==
    IF urlopen.k = "HTTPError" THEN OnHTTPError(urlopen)
    ELSE IF urlopen.k = "URLError" THEN OnURLError(urlopen)
    ELSE LET parsed == json_loads(urlopen.payload)
         IN IF IsRaise(parsed) /\ parsed.v.type = "JSONDecodeError"
            THEN RaiseMsg("RuntimeError", "Invalid JSON response from API", <<>>)
            ELSE parsed

\* request_json with the network's answer as an argument: the request made and
\* what is returned or raised
request_json(method, url, headers, body, timeout, urlopen) ==
    [request |-> BuildRequest(method, url, headers, body, timeout),
     ret |-> Classify(urlopen)]

---------------------------------------------------------------------------
(* call_endpoint                                                           *)

RECURSIVE rstrip(_, _)
rstrip(s, c) == IF s # <<>> /\ s[Len(s)] = c THEN rstrip(SubSeq(s, 1, Len(s) - 1), c) ELSE s

RECURSIVE lstrip(_, _)
lstrip(s, c) == IF s # <<>> /\ Head(s) = c THEN lstrip(Tail(s), c) ELSE s

\* str.upper and str.lower, symbol by symbol
UpperSym(c) ==
    CASE c = "get" -> "GET" [] c = "post" -> "POST" [] c = "a" -> "A" [] c = "p" -> "P"
      [] c = "i" -> "I" [] c = "k" -> "K" [] c = "e" -> "E" [] c = "y" -> "Y"
      [] OTHER -> c

LowerSym(c) ==
    CASE c = "GET" -> "get" [] c = "POST" -> "post" [] c = "A" -> "a" [] c = "P" -> "p"
      [] c = "I" -> "i" [] c = "K" -> "k" [] c = "E" -> "e" [] c = "Y" -> "y"
      [] OTHER -> c

upper(s) == [i \in 1..Len(s) |-> UpperSym(s[i])]
lower(s) == [i \in 1..Len(s) |-> LowerSym(s[i])]

\* urllib.parse.quote_plus of one symbol: letters, digits and _.-~ are kept, a
\* space becomes +, every other character its %XX
QuoteSym(c) ==
    CASE c = " " -> <<"+">>
      [] c = "/" -> <<"%", "2", "F">>
      [] c = "*" -> <<"%", "2", "A">>
      [] c = "{" -> <<"%", "7", "B">>
      [] c = "}" -> <<"%", "7", "D">>
      [] c = "&" -> <<"%", "2", "6">>
      [] c = "=" -> <<"%", "3", "D">>
      [] c = "?" -> <<"%", "3", "F">>
      [] c = "%" -> <<"%", "2", "5">>
      [] OTHER -> <<c>>

RECURSIVE quote_plus(_)
quote_plus(s) == IF s = <<>> THEN <<>> ELSE QuoteSym(Head(s)) \o quote_plus(Tail(s))

\* urllib.parse.urlencode of a dict of strings
RECURSIVE urlencode(_)
urlencode(items) ==
    IF items = <<>> THEN <<>>
    ELSE quote_plus(Head(items).key) \o <<"=">> \o quote_plus(Head(items).val.v)
         \o (IF Len(items) > 1 THEN <<"&">> \o urlencode(Tail(items)) ELSE <<>>)

\* a base URL that falls back to a built-in default
BaseUrlDefaulted(c, env) ==
    IF env = Unset THEN DictGetDefault(c.config, <<"base_url">>, Str(<<"h">>)) ELSE env

\* line 177
BaseUrl(c, env) ==
    IF env = Unset THEN DictGetDefault(c.config, <<"base_url">>, Str(<<>>)) ELSE env

\* line 181
LookupEndpoint(c, endpoint_name) ==
    DictGet(DictGetDefault(c.config, <<"endpoints">>, Dict(<<>>)), endpoint_name)

\* base_url + "/" + path
JoinUrlPlain(base_url, path) == base_url \o <<"/">> \o path

\* line 189
JoinUrl(base_url, path) == rstrip(base_url, "/") \o <<"/">> \o lstrip(path, "/")

\* lines 186-192
BuildUrl(base_url, endpoint) ==
    LET path == DictGetDefault(endpoint, <<"path">>, Str(<<>>)).v
        query == DictGet(endpoint, <<"query">>)
    IN JoinUrl(base_url, path)
       \o (IF Truthy(query) THEN <<"?">> \o urlencode(query.v) ELSE <<>>)

\* variables.get(key, default) on ctx.variables, a dict of strings
VarGet(variables, key, default) ==
    IF \E i \in 1..Len(variables) : variables[i].key = key
    THEN ItemsGet(variables, key) ELSE default

\* line 195
SafeUrl(url, variables) ==
    replace(url, VarGet(variables, <<"api_token">>, <<>>), <<"*", "*", "*">>)

\* lines 194-196
DebugTrace(c, method, url) ==
    IF c.debug
    THEN <<Msg("[DEBUG] {} {}", <<method, SafeUrl(url, c.variables)>>)>>
    ELSE <<>>

\* lines 200-206
CheckErrormessage(result) ==
    IF IsDict(result) /\ HasKey(result, <<"errormessage">>) THEN
        LET error_msg == DictGet(result, <<"errormessage">>)
        IN IF ~IsStr(error_msg) THEN Raise("AttributeError")
           ELSE IF Contains(lower(error_msg.v), <<"a", "p", "i", "-", "k", "e", "y">>) THEN
               RaiseMsg("RuntimeError",
                        "API Error: {}. Your API key may not have access to this endpoint.",
                        <<error_msg.v>>)
           ELSE RaiseMsg("RuntimeError", "API Error: {}", <<error_msg.v>>)
    ELSE result

\* ctx.config["endpoints"][endpoint_name] = substituted
StoreEndpoint(config, endpoint_name, substituted) ==
    Dict(ItemsSet(config.v, <<"endpoints">>,
                  Dict(ItemsSet(DictGet(config, <<"endpoints">>).v, endpoint_name, substituted))))

\* line 185 binds the local name endpoint to the substituted copy; ctx.config is
\* not written
ConfigAfterSubstitute(config, endpoint_name, substituted) == config

\* call_endpoint with the network's answer as an argument: what it returns or
\* raises, the request it made, the lines it printed, and ctx.config afterwards
call_endpoint(c, env, endpoint_name, urlopen) ==
    LET base_url == BaseUrl(c, env)
        found == LookupEndpoint(c, endpoint_name)
        endpoint == substitute(found, c.variables)
        method == upper(DictGetDefault(endpoint, <<"method">>, Str(<<"GET">>)).v)
        url == BuildUrl(base_url.v, endpoint)
        result == request_json(method, url,
                               DictGetDefault(endpoint, <<"headers">>, Dict(<<>>)),
                               DictGet(endpoint, <<"body">>), c.timeout, urlopen)
    IN IF ~Truthy(base_url) THEN
           [ret |-> RaiseMsg("RuntimeError", "Missing base_url in config", <<>>),
            request |-> NoRequest, stderr |-> <<>>, config |-> c.config]
       ELSE IF ~Truthy(found) THEN
           [ret |-> RaiseMsg("RuntimeError", "Unknown endpoint: {}", <<endpoint_name>>),
            request |-> NoRequest, stderr |-> <<>>, config |-> c.config]
       ELSE
           [ret |-> IF IsRaise(result.ret) THEN result.ret ELSE CheckErrormessage(result.ret),
            request |-> result.request,
            stderr |-> DebugTrace(c, method, url),
            config |-> ConfigAfterSubstitute(c.config, endpoint_name, endpoint)]

---------------------------------------------------------------------------
(* normalize_urls, normalize_competition                                   *)

COMPETITION_LOW_THRESHOLD == 33
COMPETITION_MEDIUM_THRESHOLD == 66
DEFAULT_TOP_URLS == 5
DEFAULT_LIMIT == 20
MAX_RELATED_KEYWORDS == 10

Min(a, b) == IF a < b THEN a ELSE b
Max(a, b) == IF a > b THEN a ELSE b

\* xs[:n + 1]
SliceToInclusive(xs, n) == SubSeq(xs, 1, Min(n + 1, Len(xs)))

\* xs[:n]: a negative n counts from the end
SliceTo(xs, n) ==
    IF n >= 0 THEN SubSeq(xs, 1, Min(n, Len(xs)))
    ELSE SubSeq(xs, 1, Max(Len(xs) + n, 0))

\* a or b
Or(a, b) == IF Truthy(a) THEN a ELSE b

\* link before url
ItemUrlLinkFirst(item) ==
    Or(DictGet(item, <<"link">>),
       Or(DictGet(item, <<"url">>), Or(DictGet(item, <<"href">>), DictGet(item, <<"domain">>))))

\* line 121
ItemUrl(item) ==
    Or(DictGet(item, <<"url">>),
       Or(DictGet(item, <<"link">>), Or(DictGet(item, <<"href">>), DictGet(item, <<"domain">>))))

\* lines 118-125
RECURSIVE CollectUrls(_)
CollectUrls(value) ==
    IF value = <<>> THEN <<>>
    ELSE LET item == Head(value)
             rest == CollectUrls(Tail(value))
         IN IF IsDict(item) THEN (IF Truthy(ItemUrl(item)) THEN <<ItemUrl(item)>> \o rest ELSE rest)
            ELSE IF IsStr(item) THEN <<item>> \o rest
            ELSE rest

\* limit is None or a Num
normalize_urls(value, limit) ==
    IF ~IsList(value) THEN List(<<>>)
    ELSE IF limit # None THEN List(SliceTo(CollectUrls(value.v), limit.v))
    ELSE List(CollectUrls(value.v))

\* repr() and str() of a JSON value
FloatStr(h) ==
    LET a == IF h < 0 THEN 0 - h ELSE h
        frac == a % 100
    IN (IF h < 0 THEN <<"-">> ELSE <<>>) \o <<ToString(a \div 100), ".">>
       \o (IF frac % 10 = 0 THEN <<ToString(frac \div 10)>>
           ELSE <<ToString(frac \div 10), ToString(frac % 10)>>)

RECURSIVE repr(_)
repr(x) ==
    CASE x.k = "str" -> <<"'">> \o x.v \o <<"'">>
      [] x.k = "num" -> <<ToString(x.v)>>
      [] x.k = "float" -> FloatStr(x.v)
      [] x.k = "bool" -> IF x.v THEN <<"True">> ELSE <<"False">>
      [] x.k = "null" -> <<"None">>
      [] x.k = "list" ->
            <<"[">> \o Join([i \in 1..Len(x.v) |-> repr(x.v[i])], <<", ">>) \o <<"]">>
      [] x.k = "dict" ->
            <<"{">> \o Join([i \in 1..Len(x.v) |->
                               <<"'">> \o x.v[i].key \o <<"'", ": ">> \o repr(x.v[i].val)],
                            <<", ">>) \o <<"}">>

str(x) == IF IsStr(x) THEN x.v ELSE repr(x)

\* the number of a bool, int or float, in hundredths
Hundredths(x) ==
    CASE x.k = "bool" -> IF x.v THEN 100 ELSE 0
      [] x.k = "num" -> 100 * x.v
      [] x.k = "float" -> x.v

\* value < threshold
Below(h, threshold) == h < threshold

\* lines 136, 138: value <= threshold, both in hundredths
AtMost(h, threshold) == h <= threshold

\* isinstance(value, (int, float)); bool is a subclass of int
normalize_competition(value) ==
    IF value = None THEN Str(<<"unknown">>)
    ELSE IF value.k \in {"num", "float", "bool"} THEN
        IF AtMost(Hundredths(value), COMPETITION_LOW_THRESHOLD) THEN Str(<<"low">>)
        ELSE IF AtMost(Hundredths(value), COMPETITION_MEDIUM_THRESHOLD) THEN Str(<<"medium">>)
        ELSE Str(<<"high">>)
    ELSE Str(str(value))

---------------------------------------------------------------------------
(* Inputs of normalize_urls                                                *)

MaxItems == 2
MaxLimit == 3

UrlA == Str(<<"u">>)
UrlB == Str(<<"l">>)

\* the elements of a list of results
UrlElements ==
    { Dict(<<Item(<<"url">>, UrlA)>>),
      Dict(<<Item(<<"link">>, UrlB), Item(<<"url">>, UrlA)>>),
      Dict(<<Item(<<"href">>, UrlB), Item(<<"domain">>, UrlA)>>),
      Dict(<<Item(<<"domain">>, UrlA), Item(<<"title">>, UrlB)>>),
      Dict(<<Item(<<"url">>, Str(<<>>)), Item(<<"link">>, UrlB)>>),
      Dict(<<Item(<<"url">>, None)>>),
      Dict(<<Item(<<"title">>, UrlB)>>),
      Dict(<<Item(<<"url">>, Num(7))>>),
      UrlB,
      Str(<<>>),
      Num(7),
      None,
      List(<<UrlA>>) }

UrlValues ==
    { List(xs) : xs \in UNION { [1..n -> UrlElements] : n \in 0..MaxItems } }
    \cup { None, UrlA, Num(7), Bool(TRUE), Dict(<<Item(<<"url">>, UrlA)>>) }

Limits == { None } \cup { Num(n) : n \in 0..MaxLimit }

InitUrls ==
    /\ pc = "call"
    /\ args \in { [value |-> x, limit |-> n] : x \in UrlValues, n \in Limits }
    /\ ret = Pending
    /\ NoProcess

NormalizeUrls ==
    /\ pc = "call"
    /\ ret' = normalize_urls(args.value, args.limit)
    /\ pc' = "done"
    /\ UNCHANGED <<args, process>>

NextUrls == NormalizeUrls

SpecUrls == InitUrls /\ [][NextUrls]_vars

---------------------------------------------------------------------------
(* Claims about normalize_urls                                             *)

UrlKeys == << <<"url">>, <<"link">>, <<"href">>, <<"domain">> >>

\* the keys of the priority list, in order, that the mapping holds
PresentKeys(item) == SelectSeq(UrlKeys, LAMBDA key : HasKey(item, key))

\* the keys of the priority list, in order, under which the mapping holds a value
\* that is neither null, empty, zero nor false
FilledKeys(item) == SelectSeq(UrlKeys, LAMBDA key : Truthy(DictGet(item, key)))

\* what one element yields: the value under the first of keys for a mapping, the
\* string for a string, nothing for anything else
Yield(item, keys) ==
    IF IsDict(item) THEN (IF keys = <<>> THEN <<>> ELSE <<DictGet(item, keys[1])>>)
    ELSE IF IsStr(item) THEN <<item>>
    ELSE <<>>

RECURSIVE YieldFirstPresent(_)
YieldFirstPresent(xs) ==
    IF xs = <<>> THEN <<>>
    ELSE Yield(Head(xs), PresentKeys(Head(xs))) \o YieldFirstPresent(Tail(xs))

RECURSIVE YieldFirstFilled(_)
YieldFirstFilled(xs) ==
    IF xs = <<>> THEN <<>>
    ELSE Yield(Head(xs), FilledKeys(Head(xs))) \o YieldFirstFilled(Tail(xs))

\* C15 as stated: normalize_urls returns the empty list for a value that is not a
\* sequence; otherwise, in input order, the value of the first key present among
\* url, link, href, domain for a mapping, the string for a string, nothing for any
\* other element or a mapping with none of the keys.
C15_FirstPresentKey ==
    (pc = "done" /\ args.limit = None)
    => ret = IF IsList(args.value) THEN List(YieldFirstPresent(args.value.v)) ELSE List(<<>>)

\* C15 as amended: the same with, for a mapping, the first value among those of
\* url, link, href, domain that is neither null, empty, zero nor false, and nothing
\* for a mapping that has no such value.
C15_FirstFilledKey ==
    (pc = "done" /\ args.limit = None)
    => ret = IF IsList(args.value) THEN List(YieldFirstFilled(args.value.v)) ELSE List(<<>>)

\* a mapping with link and url gave its url, a string gave itself
C15_Witness ==
    /\ pc = "done"
    /\ args.limit = None
    /\ args.value = List(<<Dict(<<Item(<<"link">>, UrlB), Item(<<"url">>, UrlA)>>), UrlB>>)
    /\ ret = List(<<UrlA, UrlB>>)

\* C16: for every sequence x and every limit n >= 0, normalize_urls(x, n) has at
\* most n elements and is the first min(n, k) elements of normalize_urls(x), k
\* being the length of the unlimited result.
C16_LimitIsPrefix ==
    (pc = "done" /\ IsList(args.value) /\ args.limit # None)
    => LET n == args.limit.v
           all == normalize_urls(args.value, None).v
           k == Len(all)
       IN n >= 0 =>
            /\ Len(ret.v) <= n
            /\ ret.v = SubSeq(all, 1, IF n < k THEN n ELSE k)

\* a limit below the number of URLs cut the result
C16_Witness ==
    /\ pc = "done"
    /\ args.limit = Num(1)
    /\ IsList(args.value)
    /\ Len(normalize_urls(args.value, None).v) = 2
    /\ Len(ret.v) = 1

---------------------------------------------------------------------------
(* Inputs of normalize_competition                                         *)

MaxScore == 105

\* scores in hundredths, a negative float, and ints
Scores ==
    { Float(h) : h \in 0..MaxScore } \cup { Float(0 - 5), Num(0 - 1), Num(0), Num(1), Num(2) }

OtherValues ==
    { Str(<<"high">>), Str(<<"n", "/", "a">>), Str(<<>>), Bool(TRUE), Bool(FALSE),
      List(<<>>), List(<<Num(1), Str(<<"x">>)>>), Dict(<<>>),
      Dict(<<Item(<<"score">>, Float(50))>>) }

InitCompetition ==
    /\ pc = "call"
    /\ args \in { [value |-> x] : x \in Scores \cup OtherValues \cup {None} }
    /\ ret = Pending
    /\ NoProcess

NormalizeCompetition ==
    /\ pc = "call"
    /\ ret' = normalize_competition(args.value)
    /\ pc' = "done"
    /\ UNCHANGED <<args, process>>

NextCompetition == NormalizeCompetition

SpecCompetition == InitCompetition /\ [][NextCompetition]_vars

---------------------------------------------------------------------------
(* Claims about normalize_competition                                      *)

\* a JSON number, in hundredths
IsScore(x) == x.k \in {"num", "float"}
ScoreOf(x) == IF x.k = "num" THEN 100 * x.v ELSE x.v

\* C17: every numeric score v gets exactly one label: 'low' for v <= 0.33,
\* 'medium' for 0.33 < v <= 0.66, 'high' for v > 0.66; null gets 'unknown'.
C17_Buckets ==
    pc = "done"
    => /\ args.value = None => ret = Str(<<"unknown">>)
       /\ IsScore(args.value) =>
            LET v == ScoreOf(args.value)
            IN /\ ret \in { Str(<<"low">>), Str(<<"medium">>), Str(<<"high">>) }
               /\ ret = Str(<<"low">>) <=> v <= 33
               /\ ret = Str(<<"medium">>) <=> (33 < v /\ v <= 66)
               /\ ret = Str(<<"high">>) <=> v > 66

\* the score 0.33 is low
C17_Witness ==
    /\ pc = "done"
    /\ args.value = Float(33)
    /\ ret = Str(<<"low">>)

\* C18: for every JSON value that is neither null nor a number (a string, a
\* boolean, a mapping, a sequence) normalize_competition returns the string
\* representation of the value, not a label computed from the thresholds.
C18_OtherValuesPassThrough ==
    (pc = "done" /\ args.value # None /\ ~IsScore(args.value))
    => ret = Str(str(args.value))

---------------------------------------------------------------------------
(* The commands                                                            *)

\* an outcome of a command: exit code or exception, with what was printed
Outcome(r, out, err) == [ret |-> r, stdout |-> out, stderr |-> err]

\* lines 215-217: except RuntimeError; every other exception goes on
OnCallError(call) ==
    IF call.ret.v.type = "RuntimeError"
    THEN Outcome(Num(1), <<>>, call.stderr \o <<Msg("Error: {}", <<call.ret.v.msg>>)>>)
    ELSE Outcome(call.ret, <<>>, call.stderr)

\* ctx.config.get("endpoints", {}).get(name, {}).get("response", {})
ResponseMap(c, name) ==
    DictGetDefault(DictGetDefault(DictGetDefault(c.config, <<"endpoints">>, Dict(<<>>)),
                                  name, Dict(<<>>)),
                   <<"response">>, Dict(<<>>))

\* get_by_path(payload, response_map.get(field, ""))
Mapped(payload, response_map, field) ==
    get_by_path(payload, DictGetDefault(response_map, <<field>>, Str(<<>>)).v)

\* the first exception among the values, in order; None when there is none
RECURSIVE FirstRaise(_)
FirstRaise(values) ==
    IF values = <<>> THEN None
    ELSE IF IsRaise(Head(values)) THEN Head(values)
    ELSE FirstRaise(Tail(values))

JsonLine(value) == Msg("{json}", <<value>>)

\* value[:n] of a list or str; any other value cannot be sliced (TypeError, or
\* KeyError for a dict where slices are hashable)
Slice(value, n) ==
    IF IsList(value) THEN List(SliceTo(value.v, n))
    ELSE IF IsStr(value) THEN Str(SliceTo(value.v, n))
    ELSE Raise("TypeError")

\* the items a for loop over a list or str visits
Elements(value) ==
    IF IsList(value) THEN value.v ELSE [i \in 1..Len(value.v) |-> Str(<<value.v[i]>>)]

\* kw.get(key, kw.get(alt, default))
Get2(kw, key, alt, default) == DictGetDefault(kw, key, DictGetDefault(kw, alt, default))

\* lines 233-244
KeywordText(result) ==
    LET head == <<Msg("Keyword: {}", <<str(result.main_keyword)>>),
                  Msg("Search Volume: {}", <<str(result.search_volume)>>),
                  Msg("Competition: {}", <<str(result.competition)>>)>>
        urls == result.top_urls.v
        url_lines == IF urls # <<>>
                     THEN <<Msg("\nTop {} URLs:", <<<<ToString(Len(urls))>>>>)>>
                          \o [i \in 1..Len(urls) |-> Msg("  {}. {}", <<<<ToString(i)>>, str(urls[i])>>)]
                     ELSE <<>>
        related == result.important_keywords
        sliced == Slice(related, MAX_RELATED_KEYWORDS)
    IN IF ~Truthy(related) THEN Outcome(Num(0), head \o url_lines, <<>>)
       ELSE IF IsRaise(sliced)
            THEN Outcome(sliced, head \o url_lines \o <<Msg("\nRelated Keywords:", <<>>)>>, <<>>)
            ELSE Outcome(Num(0),
                         head \o url_lines \o <<Msg("\nRelated Keywords:", <<>>)>>
                         \o [i \in 1..Len(Elements(sliced)) |->
                               Msg("  - {}", <<str(Elements(sliced)[i])>>)],
                         <<>>)

\* lines 219-244
KeywordResult(a, c, payload) ==
    LET response_map == ResponseMap(c, <<"keyword">>)
        main_keyword == Mapped(payload, response_map, "main_keyword")
        search_volume == Mapped(payload, response_map, "search_volume")
        competition == Mapped(payload, response_map, "competition")
        top_urls == Mapped(payload, response_map, "top_urls")
        important_keywords == Mapped(payload, response_map, "important_keywords")
        raised == FirstRaise(<<main_keyword, search_volume, competition, top_urls,
                               important_keywords>>)
        result == [main_keyword |-> Or(main_keyword, Str(a.keyword)),
                   search_volume |-> Or(search_volume, Str(<<"unknown">>)),
                   competition |-> normalize_competition(competition),
                   top_urls |-> normalize_urls(top_urls, Num(a.top)),
                   important_keywords |-> Or(important_keywords, List(<<>>))]
    IN IF raised # None THEN Outcome(raised, <<>>, <<>>)
       ELSE IF a.json THEN
           Outcome(Num(0),
                   <<JsonLine(Dict(<<Item(<<"main_keyword">>, result.main_keyword),
                                     Item(<<"search_volume">>, result.search_volume),
                                     Item(<<"competition">>, result.competition),
                                     Item(<<"top_urls">>, result.top_urls),
                                     Item(<<"important_keywords">>, result.important_keywords)>>))>>,
                   <<>>)
       ELSE KeywordText(result)

\* the lines of the for loops of cmd_rankings and cmd_prospects, up to the first
\* item that is no dict (kw.get raises AttributeError)
RECURSIVE ItemLines(_, _, _)
ItemLines(items, i, kind) ==
    IF items = <<>> THEN Outcome(Num(0), <<>>, <<>>)
    ELSE LET kw == Head(items)
         IN IF ~IsDict(kw) THEN Outcome(Raise("AttributeError"), <<>>, <<>>)
            ELSE LET name == Get2(kw, <<"keyword">>, <<"name">>, Str(<<"unknown">>))
                     pos == Get2(kw, <<"position">>, <<"rank">>, Str(<<"?">>))
                     url == Get2(kw, <<"url">>, <<"rankingUrl">>, Str(<<>>))
                     volume == Get2(kw, <<"searchVolume">>, <<"volume">>, Str(<<"?">>))
                     lines == IF kind = "rankings"
                              THEN <<Msg("  {}. [{}] {}", <<<<ToString(i)>>, str(pos), str(name)>>)>>
                                   \o (IF Truthy(url) THEN <<Msg("      {}", <<str(url)>>)>> ELSE <<>>)
                              ELSE <<Msg("  {}. {}", <<<<ToString(i)>>, str(name)>>),
                                     Msg("      Position: {}, Search Volume: {}",
                                         <<str(pos), str(volume)>>)>>
                     rest == ItemLines(Tail(items), i + 1, kind)
                 IN Outcome(rest.ret, lines \o rest.stdout, <<>>)

\* lines 255-270 and 310-324: kind is "rankings" or "prospects"
ListResult(a, c, payload, endpoint_name, field, kind) ==
    LET found == Mapped(payload, ResponseMap(c, endpoint_name), field)
        keywords == Or(found, List(<<>>))
        sliced == Slice(keywords, a.limit)
        loop == ItemLines(Elements(sliced), 1, kind)
    IN IF IsRaise(found) THEN Outcome(found, <<>>, <<>>)
       ELSE IF a.json THEN
           (IF IsRaise(sliced) THEN Outcome(sliced, <<>>, <<>>)
            ELSE Outcome(Num(0), <<JsonLine(Dict(<<Item(<<kind>>, sliced)>>))>>, <<>>))
       ELSE IF ~(IsList(keywords) \/ IsStr(keywords) \/ IsDict(keywords))
            THEN Outcome(Raise("TypeError"), <<>>, <<>>)
            ELSE LET title == Msg(IF kind = "rankings" THEN "Top {} Keyword Rankings:\n"
                                  ELSE "Top {} Keyword Opportunities:\n",
                                  <<<<ToString(Min(Len(keywords.v), a.limit))>>>>)
                 IN IF IsRaise(sliced) THEN Outcome(sliced, <<title>>, <<>>)
                    ELSE Outcome(loop.ret, <<title>> \o loop.stdout, <<>>)

\* value or 'N/A', printed
OrNA(value) == str(Or(value, Str(<<"N/A">>)))

\* lines 281-299
KpisResult(a, c, payload) ==
    LET response_map == ResponseMap(c, <<"main_kpis">>)
        ranking_index == Mapped(payload, response_map, "ranking_index")
        top_10_count == Mapped(payload, response_map, "top_10_count")
        top_100_count == Mapped(payload, response_map, "top_100_count")
        average_position == Mapped(payload, response_map, "average_position")
        raised == FirstRaise(<<ranking_index, top_10_count, top_100_count, average_position>>)
    IN IF raised # None THEN Outcome(raised, <<>>, <<>>)
       ELSE IF a.json THEN
           Outcome(Num(0),
                   <<JsonLine(Dict(<<Item(<<"ranking_index">>, ranking_index),
                                     Item(<<"top_10_count">>, top_10_count),
                                     Item(<<"top_100_count">>, top_100_count),
                                     Item(<<"average_position">>, average_position)>>))>>,
                   <<>>)
       ELSE Outcome(Num(0),
                    <<Msg("Project KPIs:\n", <<>>),
                      Msg("  Ranking Index:     {}", <<OrNA(ranking_index)>>),
                      Msg("  Keywords in Top 10:  {}", <<OrNA(top_10_count)>>),
                      Msg("  Keywords in Top 100: {}", <<OrNA(top_100_count)>>),
                      Msg("  Average Position:    {}", <<OrNA(average_position)>>)>>,
                    <<>>)

\* a command after its call of call_endpoint: the error branch, or the result
\* printed after the lines the call printed
AfterCall(call, rendered) ==
    IF IsRaise(call.ret) THEN OnCallError(call)
    ELSE Outcome(rendered.ret, rendered.stdout, call.stderr)

\* line 211
WithKeyword(c, keyword) ==
    [c EXCEPT !.variables = ItemsSet(c.variables, <<"keyword">>, keyword)]

cmd_keyword(a, c, env, urlopen) ==
    LET c1 == WithKeyword(c, a.keyword)
        call == call_endpoint(c1, env, <<"keyword">>, urlopen)
    IN [ctx |-> [c1 EXCEPT !.config = call.config], request |-> call.request,
        out |-> AfterCall(call, KeywordResult(a, c1, call.ret))]

cmd_rankings(a, c, env, urlopen) ==
    LET call == call_endpoint(c, env, <<"rankings">>, urlopen)
    IN [ctx |-> [c EXCEPT !.config = call.config], request |-> call.request,
        out |-> AfterCall(call, ListResult(a, c, call.ret, <<"rankings">>, "keywords", "rankings"))]

cmd_kpis(a, c, env, urlopen) ==
    LET call == call_endpoint(c, env, <<"main_kpis">>, urlopen)
    IN [ctx |-> [c EXCEPT !.config = call.config], request |-> call.request,
        out |-> AfterCall(call, KpisResult(a, c, call.ret))]

cmd_prospects(a, c, env, urlopen) ==
    LET call == call_endpoint(c, env, <<"prospects">>, urlopen)
    IN [ctx |-> [c EXCEPT !.config = call.config], request |-> call.request,
        out |-> AfterCall(call, ListResult(a, c, call.ret, <<"prospects">>, "prospects", "prospects"))]

---------------------------------------------------------------------------
(* The process: a CommandContext built by main() and the calls made with it *)

Ph(name) == Placeholder(<<name>>)

KeywordEndpoint ==
    Dict(<<Item(<<"method">>, Str(<<"get">>)),
           Item(<<"path">>, Str(<<"/", "k", "/">> \o Ph("project_hash"))),
           Item(<<"query">>, Dict(<<Item(<<"key">>, Str(Ph("api_token"))),
                                    Item(<<"q">>, Str(Ph("keyword")))>>)),
           Item(<<"response">>, Dict(<<Item(<<"main_keyword">>, Str(<<"k">>)),
                                       Item(<<"search_volume">>, Str(<<"v">>)),
                                       Item(<<"top_urls">>, Str(<<"s">>)),
                                       Item(<<"important_keywords">>, Str(<<"r">>))>>))>>)

RankingsEndpoint ==
    Dict(<<Item(<<"method">>, Str(<<"get">>)),
           Item(<<"path">>, Str(<<"r", "/">> \o Ph("api_token") \o <<"/">> \o Ph("project_hash"))),
           Item(<<"response">>, Dict(<<Item(<<"keywords">>, Str(<<"d", ".", "r">>))>>))>>)

KpisEndpoint ==
    Dict(<<Item(<<"method">>, Str(<<"post">>)),
           Item(<<"path">>, Str(<<"/", "a">> \o Ph("api_token"))),
           Item(<<"headers">>, Dict(<<Item(<<"Accept">>, Str(<<"*">>))>>)),
           Item(<<"body">>, Dict(<<Item(<<"h">>, Str(Ph("project_hash")))>>)),
           Item(<<"response">>, Dict(<<Item(<<"ranking_index">>, Str(<<"v">>)),
                                       Item(<<"top_10_count">>, Str(<<"s", "[", "0", "]">>))>>))>>)

ProspectsEndpoint ==
    Dict(<<Item(<<"path">>, Str(<<"/", "/", "p">>)),
           Item(<<"query">>, Dict(<<Item(<<"h">>, Str(Ph("project_hash")))>>)),
           Item(<<"response">>, Dict(<<Item(<<"prospects">>, Str(<<"r">>))>>))>>)

AllEndpoints ==
    Dict(<<Item(<<"keyword">>, KeywordEndpoint), Item(<<"rankings">>, RankingsEndpoint),
           Item(<<"main_kpis">>, KpisEndpoint), Item(<<"prospects">>, ProspectsEndpoint)>>)

\* the endpoints with no response-field map
WithoutResponse(endpoints) ==
    Dict([i \in 1..Len(endpoints.v) |->
            Item(endpoints.v[i].key,
                 Dict(SelectSeq(endpoints.v[i].val.v,
                                LAMBDA item : item.key # <<"response">>)))])

\* the config documents main() may load
Configs ==
    { Dict(<<Item(<<"base_url">>, Str(<<"h", "/">>)), Item(<<"endpoints">>, AllEndpoints)>>),
      Dict(<<Item(<<"endpoints">>, AllEndpoints)>>),
      Dict(<<Item(<<"base_url">>, Str(<<"h">>)),
             Item(<<"endpoints">>, Dict(<<Item(<<"keyword">>, KeywordEndpoint),
                                          Item(<<"rankings">>, Dict(<<>>))>>))>>),
      Dict(<<Item(<<"base_url">>, Str(<<"h">>))>>),
      Dict(<<Item(<<"base_url">>, Str(<<"h">>)),
             Item(<<"endpoints">>, WithoutResponse(AllEndpoints))>>) }

\* PAGERANGERS_API_TOKEN and PAGERANGERS_PROJECT_HASH: main() refuses empty ones
Tokens == { <<"t", "k">>, <<"t", "/">>, <<"H">>, <<"a", "*">> }
ProjectHashes == { <<"H">>, <<"t", "k">> }

\* PAGERANGERS_BASE_URL
BaseUrlOverrides == { Unset, Str(<<"e", "/", "/">>), Str(<<>>) }

Keywords == { <<"w">>, <<"w", " ", "/">>, Ph("api_token") }

EndpointNames ==
    { <<"keyword">>, <<"rankings">>, <<"main_kpis">>, <<"prospects">>, <<"nonexistent">> }

\* the response bodies of the API
Payloads ==
    { Dict(<<Item(<<"k">>, Str(<<"w">>)), Item(<<"v">>, Num(5)),
             Item(<<"s">>, List(<<Dict(<<Item(<<"url">>, Str(<<"u">>))>>), Str(<<"l">>)>>)),
             Item(<<"r">>, List(<<Dict(<<Item(<<"keyword">>, Str(<<"w">>))>>)>>)),
             Item(<<"d">>, Dict(<<Item(<<"r">>, List(<<Dict(<<Item(<<"name">>, Str(<<"n">>))>>)>>))>>))>>),
      Dict(<<Item(<<"k">>, Str(<<>>)), Item(<<"v">>, Num(0)), Item(<<"r">>, List(<<>>))>>),
      Dict(<<>>),
      List(<<Str(<<"w">>)>>),
      Dict(<<Item(<<"errormessage">>, Str(<<"I", "n", "v", "a", "l", "i", "d", " ", "A", "P", "I", "-", "k", "e", "y">>))>>),
      Dict(<<Item(<<"errormessage">>, Str(<<"q", "u", "o", "t", "a">>)), Item(<<"k">>, Str(<<"w">>))>>),
      Dict(<<Item(<<"errormessage">>, Str(<<>>))>>),
      Dict(<<Item(<<"errormessage">>, None)>>),
      Dict(<<Item(<<"errormessage">>, Num(42))>>) }

ErrorBodies == { TextBytes(<<"o", "o", "p", "s">>), TextBytes(<<>>), BadUtf8 }

StatusCodes == { HTTP_UNAUTHORIZED, HTTP_FORBIDDEN, HTTP_TOO_MANY_REQUESTS, 400, 404, 500, 503 }

\* everything the network can do with one request
Urlopens ==
    { HTTPError(code, TextBytes(<<"o", "o", "p", "s">>)) : code \in StatusCodes }
    \cup { HTTPError(code, body) : code \in {HTTP_UNAUTHORIZED, 404}, body \in ErrorBodies }
    \cup { URLError(<<"r", "e", "f", "u", "s", "e", "d">>), URLError(<<>>) }
    \cup { Response(200, JsonBytes(payload)) : payload \in Payloads }
    \cup { Response(200, body) : body \in ErrorBodies }
    \cup { Response(204, TextBytes(<<>>)) }

\* the command lines: keyword <kw> [--top n] [--json], rankings and prospects
\* [--limit n] [--json], kpis [--json]
KeywordArgs ==
    { [keyword |-> kw, top |-> o.top, json |-> o.json] :
        kw \in Keywords,
        o \in { [top |-> DEFAULT_TOP_URLS, json |-> TRUE], [top |-> 1, json |-> FALSE] } }

ListArgs ==
    { [limit |-> DEFAULT_LIMIT, json |-> TRUE], [limit |-> 1, json |-> TRUE],
      [limit |-> DEFAULT_LIMIT, json |-> FALSE] }

KpisArgs == { [json |-> TRUE], [json |-> FALSE] }

\* lines 413-418: the context main() builds once the config is loaded and the
\* credentials are found
Context(config, token, project_hash, flag) ==
    [config |-> config,
     variables |-> <<Item(<<"api_token">>, token), Item(<<"project_hash">>, project_hash)>>,
     timeout |-> DEFAULT_TIMEOUT,
     debug |-> flag]

\* one process of main(): one command, then exit
Init ==
    /\ pc = "ready"
    /\ args = [fn |-> "main"]
    /\ ret = Pending
    /\ config_file \in Configs
    /\ \E token \in Tokens, project_hash \in ProjectHashes, flag \in BOOLEAN :
          ctx = Context(config_file, token, project_hash, flag)
    /\ environ \in BaseUrlOverrides
    /\ request = NoRequest
    /\ stdout = <<>>
    /\ stderr = <<>>
    /\ calls_left = 1

\* the state after a command ran
Ran(fn, a, urlopen, run) ==
    /\ calls_left > 0
    /\ calls_left' = calls_left - 1
    /\ args' = [fn |-> fn, args |-> a, urlopen |-> urlopen]
    /\ ctx' = run.ctx
    /\ request' = run.request
    /\ ret' = run.out.ret
    /\ stdout' = run.out.stdout
    /\ stderr' = run.out.stderr
    /\ UNCHANGED <<pc, config_file, environ>>

CmdKeyword(argss, urlopens) ==
    \E a \in argss, urlopen \in urlopens :
        Ran("cmd_keyword", a, urlopen, cmd_keyword(a, ctx, environ, urlopen))

CmdRankings(argss, urlopens) ==
    \E a \in argss, urlopen \in urlopens :
        Ran("cmd_rankings", a, urlopen, cmd_rankings(a, ctx, environ, urlopen))

CmdKpis(argss, urlopens) ==
    \E a \in argss, urlopen \in urlopens :
        Ran("cmd_kpis", a, urlopen, cmd_kpis(a, ctx, environ, urlopen))

CmdProspects(argss, urlopens) ==
    \E a \in argss, urlopen \in urlopens :
        Ran("cmd_prospects", a, urlopen, cmd_prospects(a, ctx, environ, urlopen))

\* a direct call of call_endpoint, as the tests make
CallEndpoint(names, urlopens) ==
    \E endpoint_name \in names, urlopen \in urlopens :
        LET call == call_endpoint(ctx, environ, endpoint_name, urlopen)
        IN Ran("call_endpoint", [endpoint_name |-> endpoint_name], urlopen,
               [ctx |-> [ctx EXCEPT !.config = call.config], request |-> call.request,
                out |-> Outcome(call.ret, <<>>, call.stderr)])

Next ==
    \/ CmdKeyword(KeywordArgs, Urlopens)
    \/ CmdRankings(ListArgs, Urlopens)
    \/ CmdKpis(KpisArgs, Urlopens)
    \/ CmdProspects(ListArgs, Urlopens)
    \/ CallEndpoint(EndpointNames, Urlopens)

Spec == Init /\ [][Next]_vars

---------------------------------------------------------------------------
(* A session: one context used for several calls, as the tests and a       *)
(* caller of the module do                                                 *)

MaxCalls == 2

SessionUrlopens ==
    { Response(200, JsonBytes(Dict(<<Item(<<"k">>, Str(<<"w">>))>>))),
      Response(200, JsonBytes(Dict(<<Item(<<"errormessage">>, Str(<<"q", "u", "o", "t", "a">>))>>))),
      HTTPError(HTTP_UNAUTHORIZED, TextBytes(<<>>)) }

SessionKeywordArgs ==
    { [keyword |-> kw, top |-> DEFAULT_TOP_URLS, json |-> TRUE] : kw \in {<<"w">>, <<"x">>} }

InitSession ==
    /\ pc = "ready"
    /\ args = [fn |-> "main"]
    /\ ret = Pending
    /\ config_file \in { cfg \in Configs : HasKey(cfg, <<"endpoints">>) }
    /\ \E flag \in BOOLEAN : ctx = Context(config_file, <<"t", "k">>, <<"H">>, flag)
    /\ environ = Unset
    /\ request = NoRequest
    /\ stdout = <<>>
    /\ stderr = <<>>
    /\ calls_left = MaxCalls

NextSession ==
    \/ CmdKeyword(SessionKeywordArgs, SessionUrlopens)
    \/ CmdRankings({[limit |-> DEFAULT_LIMIT, json |-> TRUE]}, SessionUrlopens)
    \/ CmdKpis({[json |-> TRUE]}, SessionUrlopens)
    \/ CmdProspects({[limit |-> DEFAULT_LIMIT, json |-> TRUE]}, SessionUrlopens)
    \/ CallEndpoint({<<"keyword">>, <<"nonexistent">>}, SessionUrlopens)

SpecSession == InitSession /\ [][NextSession]_vars

---------------------------------------------------------------------------
(* request_json on its own                                                 *)

InitRequest ==
    /\ pc = "call"
    /\ args \in { [method |-> <<"GET">>, url |-> <<"h", "/", "p">>, headers |-> h,
                   body |-> b, timeout |-> DEFAULT_TIMEOUT, urlopen |-> u] :
                    h \in { Dict(<<>>), Dict(<<Item(<<"Accept">>, Str(<<"*">>))>>), None },
                    b \in { None, Dict(<<Item(<<"h">>, Str(<<"H">>))>>) },
                    u \in Urlopens }
    /\ ret = Pending
    /\ NoProcess

RequestJson ==
    /\ pc = "call"
    /\ LET call == request_json(args.method, args.url, args.headers, args.body,
                                args.timeout, args.urlopen)
       IN /\ ret' = call.ret
          /\ request' = call.request
    /\ pc' = "done"
    /\ UNCHANGED <<args, ctx, config_file, environ, stdout, stderr, calls_left>>

NextRequest == RequestJson

SpecRequest == InitRequest /\ [][NextRequest]_vars

---------------------------------------------------------------------------
(* call_endpoint on one endpoint: the URL it builds                        *)

MaxSlashes == 2

Slashes(n) == [i \in 1..n |-> "/"]

\* a path without its leading slashes
PathBodies == { <<"p", "/", "x">>, <<>> }

\* the query of the endpoint: no query key, null, or a mapping
Queries ==
    { Unset, None, Dict(<<>>),
      Dict(<<Item(<<"q">>, Str(<<"w">>))>>),
      Dict(<<Item(<<"key">>, Str(Ph("api_token")))>>),
      Dict(<<Item(<<"q">>, Str(<<"w", " ", "/">>)), Item(<<"h">>, Str(Ph("project_hash")))>>),
      Dict(<<Item(<<"a", " ", "b">>, Str(<<"x", "&", "y", "=", "z", " ", "?">>)),
             Item(<<"k">>, Str(<<>>))>>) }

UrlVariables ==
    <<Item(<<"api_token">>, <<"t", "/">>), Item(<<"project_hash">>, <<"H">>)>>

\* the config document with the one endpoint "e"
UrlConfig(a) ==
    Dict(<<Item(<<"base_url">>, Str(a.host \o Slashes(a.trailing))),
           Item(<<"endpoints">>,
                Dict(<<Item(<<"e">>,
                            Dict(<<Item(<<"path">>, Str(Slashes(a.leading) \o a.body))>>
                                 \o (IF a.query = Unset THEN <<>>
                                     ELSE <<Item(<<"query">>, a.query)>>)))>>))>>)

InitUrl ==
    /\ pc = "call"
    /\ args \in { [host |-> h, trailing |-> t, leading |-> l, body |-> b, query |-> q] :
                    h \in { <<"h">> }, t \in 0..MaxSlashes, l \in 0..MaxSlashes,
                    b \in PathBodies, q \in Queries }
    /\ ret = Pending
    /\ NoProcess

CallForUrl ==
    /\ pc = "call"
    /\ LET c == [config |-> UrlConfig(args), variables |-> UrlVariables,
                 timeout |-> DEFAULT_TIMEOUT, debug |-> FALSE]
           call == call_endpoint(c, Unset, <<"e">>, Response(200, JsonBytes(Dict(<<>>))))
       IN /\ ret' = call.ret
          /\ request' = call.request
    /\ pc' = "done"
    /\ UNCHANGED <<args, ctx, config_file, environ, stdout, stderr, calls_left>>

NextUrl == CallForUrl

SpecUrl == InitUrl /\ [][NextUrl]_vars

---------------------------------------------------------------------------
(* detect_credentials.parse_prompt                                         *)

\* line 52: except (json.JSONDecodeError, TypeError)
Caught == {"JSONDecodeError", "TypeError"}

\* line 51: data.get exists only on a dict
PromptOf(data) ==
    IF ~IsDict(data) THEN Raise("AttributeError")
    ELSE Or(DictGetDefault(data, <<"prompt">>, Str(<<>>)),
            Or(DictGetDefault(data, <<"message">>, Str(<<>>)),
               Or(DictGetDefault(data, <<"content">>, Str(<<>>)), Str(<<>>))))

\* input_data is None or the text of stdin: text that is JSON, with the value it
\* parses to, or text that is not
parse_prompt(input_data) ==
    IF input_data = None \/ input_data = TextBytes(<<>>) THEN Str(<<>>)
    ELSE LET data == json_loads(input_data)
             found == IF IsRaise(data) THEN data ELSE PromptOf(data)
         IN IF IsRaise(found) /\ found.v.type \in Caught THEN input_data ELSE found

\* the values of one field of the hook's JSON object
FieldValues == { Unset, Str(<<>>), Str(<<"s", "e", "o">>), None, Num(0), Num(5) }

PromptObjects ==
    { Dict((IF f.prompt = Unset THEN <<>> ELSE <<Item(<<"prompt">>, f.prompt)>>)
           \o (IF f.message = Unset THEN <<>> ELSE <<Item(<<"message">>, f.message)>>)
           \o (IF f.content = Unset THEN <<>> ELSE <<Item(<<"content">>, f.content)>>)) :
        f \in [prompt : FieldValues, message : FieldValues, content : FieldValues] }

\* what stdin may hold
PromptInputs ==
    { None, TextBytes(<<>>), TextBytes(<<"s", "e", "o", " ", "k", "p", "i", "s">>),
      TextBytes(<<"{">>), TextBytes(<<" ">>) }
    \cup { JsonBytes(v) : v \in PromptObjects }
    \cup { JsonBytes(v) : v \in { Num(5), Num(0), None, Bool(TRUE), Str(<<"s", "e", "o">>),
                                  Str(<<>>), List(<<>>), List(<<Num(1)>>) } }

InitPrompt ==
    /\ pc = "call"
    /\ args \in { [input_data |-> x] : x \in PromptInputs }
    /\ ret = Pending
    /\ NoProcess

ParsePrompt ==
    /\ pc = "call"
    /\ ret' = parse_prompt(args.input_data)
    /\ pc' = "done"
    /\ UNCHANGED <<args, process>>

NextPrompt == ParsePrompt

SpecPrompt == InitPrompt /\ [][NextPrompt]_vars

---------------------------------------------------------------------------
(* Claims about call_endpoint, request_json and the commands               *)

Commands == {"cmd_keyword", "cmd_rankings", "cmd_kpis", "cmd_prospects"}

\* the endpoint name of the last call
CalledEndpoint ==
    CASE args.fn = "cmd_keyword" -> <<"keyword">>
      [] args.fn = "cmd_rankings" -> <<"rankings">>
      [] args.fn = "cmd_kpis" -> <<"main_kpis">>
      [] args.fn = "cmd_prospects" -> <<"prospects">>
      [] args.fn = "call_endpoint" -> args.args.endpoint_name

Called == args.fn \in Commands \cup {"call_endpoint"}

\* the "Error: ..." lines of stderr and the messages in them
ErrorLines == { i \in 1..Len(stderr) : stderr[i].fmt = "Error: {}" }

\* the message of the RuntimeError the last call ended with: raised by
\* call_endpoint, printed by a command
FailedWith(fmts) ==
    IF args.fn = "call_endpoint"
    THEN IsRaise(ret) /\ ret.v.type = "RuntimeError" /\ ret.v.msg.fmt \in fmts
    ELSE /\ ret = Num(1)
         /\ ErrorLines # {}
         /\ \A i \in ErrorLines : stderr[i].parts[1].fmt \in fmts

\* the debug lines of stderr and the URL printed in each
DebugLines == { i \in 1..Len(stderr) : stderr[i].fmt = "[DEBUG] {} {}" }
PrintedUrl(i) == stderr[i].parts[2]

ApiToken == VarGet(ctx.variables, <<"api_token">>, <<>>)
ProjectHash == VarGet(ctx.variables, <<"project_hash">>, <<>>)

\* the URL of the endpoint as the loaded document and the current variables give it
UrlFromFile ==
    BuildUrl(BaseUrl([config |-> config_file], environ).v,
             substitute(LookupEndpoint([config |-> config_file], CalledEndpoint),
                        ctx.variables))

\* C3: after any sequence of calls ctx.config equals the document loaded at
\* startup, and the request of the last call is built from that document with the
\* variables of this call.
C3_ConfigNeverMutated ==
    /\ ctx.config = config_file
    /\ (Called /\ request # NoRequest) => request.v.url = UrlFromFile

\* a second call has been made, its request carries the keyword of this call, and
\* the document still holds the placeholder
C3_Witness ==
    /\ calls_left = 0
    /\ args.fn = "cmd_keyword"
    /\ request # NoRequest
    /\ Contains(request.v.url, <<"q", "=">> \o args.args.keyword)
    /\ ctx.config = config_file
    /\ DictGet(DictGet(LookupEndpoint(ctx, <<"keyword">>), <<"query">>), <<"q">>)
         = Str(Ph("keyword"))

\* C5: with debug on, for every token value, the URL printed in the trace has no
\* occurrence of the token in clear text: neither the value as given nor the
\* percent-encoded form in which urlencode writes it into the query.
C5_TokenNeverInTrace ==
    \A i \in DebugLines :
        /\ ~Contains(PrintedUrl(i), ApiToken)
        /\ ~Contains(PrintedUrl(i), quote_plus(ApiToken))

\* C6: the URL printed in the debug trace holds neither the API token nor the
\* project identifier.
C6_NoCredentialInTrace ==
    \A i \in DebugLines :
        ~Contains(PrintedUrl(i), ApiToken) /\ ~Contains(PrintedUrl(i), ProjectHash)

\* the endpoint map of the loaded document has no entry for the name
EndpointAbsent ==
    \/ ~HasKey(config_file, <<"endpoints">>)
    \/ ~HasKey(DictGet(config_file, <<"endpoints">>), CalledEndpoint)

\* neither the environment nor the document gives a base URL
NoBaseUrlConfigured ==
    /\ environ = Unset
    /\ ~HasKey(config_file, <<"base_url">>)

\* C7: a call with an endpoint name absent from the endpoint map, or with no base
\* URL configured, fails with the configuration error and makes no request.
C7_ConfigErrorBeforeAnyRequest ==
    (Called /\ (EndpointAbsent \/ NoBaseUrlConfigured))
    => /\ request = NoRequest
       /\ FailedWith({"Unknown endpoint: {}", "Missing base_url in config"})
       /\ NoBaseUrlConfigured => FailedWith({"Missing base_url in config"})
       /\ (~NoBaseUrlConfigured /\ environ # Str(<<>>))
            => FailedWith({"Unknown endpoint: {}"})

C7_Witness ==
    /\ args.fn = "call_endpoint"
    /\ args.args.endpoint_name = <<"nonexistent">>
    /\ ~NoBaseUrlConfigured
    /\ args.urlopen.k = "response"
    /\ request = NoRequest
    /\ IsRaise(ret) /\ ret.v.msg = Msg("Unknown endpoint: {}", <<<<"nonexistent">>>>)

\* the last call was call_endpoint, it made its request, and the answer was a 2xx
\* response with a JSON body
GotJson ==
    /\ args.fn = "call_endpoint"
    /\ request # NoRequest
    /\ args.urlopen.k = "response"
    /\ args.urlopen.payload.k = "json"

ApiErrorFormats ==
    { "API Error: {}", "API Error: {}. Your API key may not have access to this endpoint." }

\* C8: a 2xx body that is an object with an errormessage field, whatever its
\* value, makes call_endpoint fail with the API error; a body without the field is
\* returned unchanged.
C8_ErrormessageIsApiError ==
    GotJson =>
        LET body == args.urlopen.payload.v
        IN IF IsDict(body) /\ HasKey(body, <<"errormessage">>)
           THEN IsRaise(ret) /\ ret.v.type = "RuntimeError" /\ ret.v.msg.fmt \in ApiErrorFormats
           ELSE ret = body

\* C9: request_json turns 401, 403 and 429 into their own errors, every other
\* status of an HTTPError into the generic error with the code and the body text,
\* a URLError into the connection error, and returns no payload for any of them.
C9_StatusClassification ==
    (pc = "done" /\ args.urlopen.k \in {"HTTPError", "URLError"})
    => LET u == args.urlopen
       IN ret =
            CASE u.k = "URLError" ->
                    RaiseMsg("RuntimeError", "Connection error: {}", <<u.reason>>)
              [] u.k = "HTTPError" /\ u.code = 401 ->
                    RaiseMsg("RuntimeError",
                             "Authentication failed. Check PAGERANGERS_API_TOKEN.", <<>>)
              [] u.k = "HTTPError" /\ u.code = 403 ->
                    RaiseMsg("RuntimeError",
                             "Access denied. Check PAGERANGERS_PROJECT_HASH.", <<>>)
              [] u.k = "HTTPError" /\ u.code = 429 ->
                    RaiseMsg("RuntimeError", "Rate limit exceeded. Try again later.", <<>>)
              [] OTHER ->
                    RaiseMsg("RuntimeError", "HTTP {}: {}",
                             <<<<ToString(u.code)>>, DecodeReplace(u.payload)>>)

C9_Witness ==
    /\ pc = "done"
    /\ args.urlopen.k = "HTTPError"
    /\ args.urlopen.code = 503
    /\ ret = RaiseMsg("RuntimeError", "HTTP {}: {}", <<<<"503">>, <<"o", "o", "p", "s">>>>)
    /\ request # NoRequest

\* the endpoint call of the last command failed: a config error, a connection
\* failure, a non-2xx status, an API error inside a 2xx body, or a body that is
\* not valid JSON
EndpointCallFailed ==
    \/ EndpointAbsent
    \/ NoBaseUrlConfigured
    \/ args.urlopen.k \in {"URLError", "HTTPError"}
    \/ /\ args.urlopen.k = "response"
       /\ \/ args.urlopen.payload.k # "json"
          \/ /\ IsDict(args.urlopen.payload.v)
             /\ HasKey(args.urlopen.payload.v, <<"errormessage">>)

\* C10: whatever way the endpoint call of a command fails, the command returns 1
\* after printing an error line, prints nothing to stdout and lets no exception
\* escape.
C10_FailureRecoveredAtCommand ==
    (args.fn \in Commands /\ EndpointCallFailed)
    => /\ ret = Num(1)
       /\ ErrorLines # {}
       /\ stdout = <<>>

\* the character a %XX escape stands for
Unescape(hi, lo) ==
    CASE <<hi, lo>> = <<"2", "F">> -> "/"
      [] <<hi, lo>> = <<"2", "A">> -> "*"
      [] <<hi, lo>> = <<"7", "B">> -> "{"
      [] <<hi, lo>> = <<"7", "D">> -> "}"
      [] <<hi, lo>> = <<"2", "6">> -> "&"
      [] <<hi, lo>> = <<"3", "D">> -> "="
      [] <<hi, lo>> = <<"3", "F">> -> "?"
      [] <<hi, lo>> = <<"2", "5">> -> "%"
      [] <<hi, lo>> = <<"2", "0">> -> " "
      [] OTHER -> "?"

\* the text a key or a value of a query string stands for
RECURSIVE Unquote(_)
Unquote(s) ==
    IF s = <<>> THEN <<>>
    ELSE IF Head(s) = "%" /\ Len(s) >= 3
         THEN <<Unescape(s[2], s[3])>> \o Unquote(SubSeq(s, 4, Len(s)))
    ELSE IF Head(s) = "+" THEN <<" ">> \o Unquote(Tail(s))
    ELSE <<Head(s)>> \o Unquote(Tail(s))

\* no character that has a meaning in a query string is written as it is
IsEncoded(s) == \A i \in 1..Len(s) : s[i] \notin {" ", "/", "&", "=", "?", "{", "}", "*"}

\* qs is the &-joined key=value pairs of the mapping, each key and value encoded
IsQueryString(qs, items) ==
    LET pairs == split(qs, "&")
    IN /\ Len(pairs) = Len(items)
       /\ \A i \in 1..Len(items) :
            LET kv == split(pairs[i], "=")
            IN /\ Len(kv) = 2
               /\ IsEncoded(kv[1]) /\ Unquote(kv[1]) = items[i].key
               /\ IsEncoded(kv[2]) /\ Unquote(kv[2]) = items[i].val.v

\* the URL of the request: base, one slash, path, then what follows
UrlJoined == args.host \o <<"/">> \o args.body
UrlRest == SubSeq(request.v.url, Len(UrlJoined) + 1, Len(request.v.url))
SubstitutedQuery == substitute(args.query, UrlVariables)

\* C19 as stated: the URL is base URL + exactly one "/" + path for every number of
\* trailing slashes of the base URL and of leading slashes of the path, followed by
\* "?" and the &-joined percent-encoded key=value pairs exactly when the
\* substituted endpoint has a query mapping.
C19_QueryWheneverMapping ==
    pc = "done"
    => /\ request # NoRequest
       /\ StartsWith(request.v.url, UrlJoined)
       /\ IF IsDict(args.query)
          THEN /\ UrlRest # <<>> /\ Head(UrlRest) = "?"
               /\ args.query.v # <<>> => IsQueryString(Tail(UrlRest), SubstitutedQuery.v)
               /\ args.query.v = <<>> => UrlRest = <<"?">>
          ELSE UrlRest = <<>>

\* C19 as amended: the same, with the query string exactly when the query mapping
\* is not empty.
C19_QueryWheneverNonEmptyMapping ==
    pc = "done"
    => /\ request # NoRequest
       /\ StartsWith(request.v.url, UrlJoined)
       /\ IF IsDict(args.query) /\ args.query.v # <<>>
          THEN /\ UrlRest # <<>> /\ Head(UrlRest) = "?"
               /\ IsQueryString(Tail(UrlRest), SubstitutedQuery.v)
          ELSE UrlRest = <<>>

\* two trailing and two leading slashes became one, and the query with a space, a
\* slash and a placeholder was written encoded
C19_Witness ==
    /\ pc = "done"
    /\ args.trailing = 2 /\ args.leading = 2
    /\ request # NoRequest
    /\ request.v.url = <<"h", "/", "p", "/", "x", "?", "q", "=", "w", "+", "%", "2", "F",
                         "&", "h", "=", "H">>

\* the environment and the document give no base URL: the variable is unset or
\* empty, and the document has no base_url or an empty one
NoBaseUrlAnywhere ==
    /\ environ \in {Unset, Str(<<>>)}
    /\ ~Truthy(DictGetDefault(config_file, <<"base_url">>, Str(<<>>)))

\* the base URL the claim gives: the variable when it is set, the document otherwise
ClaimedBaseUrl ==
    IF environ # Unset THEN environ ELSE DictGetDefault(config_file, <<"base_url">>, Str(<<>>))

MissingBaseUrl ==
    IF args.fn = "call_endpoint"
    THEN ret = RaiseMsg("RuntimeError", "Missing base_url in config", <<>>)
    ELSE \E i \in 1..Len(stderr) :
            stderr[i] = Msg("Error: {}", <<Msg("Missing base_url in config", <<>>)>>)

\* C20: the base URL of a call is the value of PAGERANGERS_BASE_URL whenever the
\* variable is set and the base_url of the config document otherwise, and the
\* missing-base-URL error is raised exactly when neither source gives a base URL.
C20_EnvOverridesAndErrorOnlyWithoutBase ==
    (args.fn \in {"cmd_keyword", "cmd_rankings", "cmd_kpis", "cmd_prospects", "call_endpoint"})
    => /\ request # NoRequest
            => StartsWith(request.v.url, rstrip(ClaimedBaseUrl.v, "/") \o <<"/">>)
       /\ MissingBaseUrl <=> NoBaseUrlAnywhere

\* the same without the processes whose variable is set to the empty string
C20_VariableNotEmpty ==
    (/\ args.fn \in {"cmd_keyword", "cmd_rankings", "cmd_kpis", "cmd_prospects", "call_endpoint"}
     /\ environ # Str(<<>>))
    => /\ request # NoRequest
            => StartsWith(request.v.url, rstrip(ClaimedBaseUrl.v, "/") \o <<"/">>)
       /\ MissingBaseUrl <=> NoBaseUrlAnywhere

\* the values of prompt, message, content, in that order, that are not empty
NonEmptyFields(data) ==
    SelectSeq(<<DictGet(data, <<"prompt">>), DictGet(data, <<"message">>),
                DictGet(data, <<"content">>)>>,
              LAMBDA value : Truthy(value))

\* C21: parse_prompt never raises: it returns the first non-empty of the prompt,
\* message, content fields when the input is a JSON object, the empty string for
\* empty or None input, and the input text as it is for every other input, text
\* that parses as a JSON value that is not an object included.
C21_NeverRaises ==
    pc = "done"
    => LET input_data == args.input_data
       IN /\ ~IsRaise(ret)
          /\ ret = CASE input_data \in {None, TextBytes(<<>>)} -> Str(<<>>)
                     [] input_data.k = "json" /\ IsDict(input_data.v) ->
                          IF NonEmptyFields(input_data.v) = <<>> THEN Str(<<>>)
                          ELSE NonEmptyFields(input_data.v)[1]
                     [] OTHER -> input_data

\* the same for the inputs that are not JSON text of a value other than an object
C21_ObjectsAndPlainText ==
    (pc = "done" /\ ~(args.input_data.k = "json" /\ ~IsDict(args.input_data.v)))
    => LET input_data == args.input_data
       IN /\ ~IsRaise(ret)
          /\ ret = CASE input_data \in {None, TextBytes(<<>>)} -> Str(<<>>)
                     [] input_data.k = "json" /\ IsDict(input_data.v) ->
                          IF NonEmptyFields(input_data.v) = <<>> THEN Str(<<>>)
                          ELSE NonEmptyFields(input_data.v)[1]
                     [] OTHER -> input_data

\* the last command was run with --json on a payload that call_endpoint returned
GotPayload ==
    /\ args.fn \in Commands
    /\ args.args.json
    /\ request # NoRequest
    /\ args.urlopen.k = "response"
    /\ args.urlopen.payload.k = "json"
    /\ ~(IsDict(args.urlopen.payload.v) /\ HasKey(args.urlopen.payload.v, <<"errormessage">>))

Payload == args.urlopen.payload.v

\* the response-field map of the endpoint of the last command, in the loaded document
FieldMap == ResponseMap([config |-> config_file], CalledEndpoint)

IsMapped(field) == HasKey(FieldMap, <<field>>)

\* what the path mapped to the field resolves to in the payload; None is absent
Resolved(field) == get_by_path(Payload, DictGet(FieldMap, <<field>>).v)

\* the object the command printed
Printed == stdout[1].parts[1]

\* the fallback defaults of cmd_keyword
KeywordFallback(field) ==
    CASE field = "main_keyword" -> Str(args.args.keyword)
      [] field = "search_volume" -> Str(<<"unknown">>)
      [] field = "competition" -> Str(<<"unknown">>)
      [] field = "top_urls" -> List(<<>>)
      [] field = "important_keywords" -> List(<<>>)

\* C22: in the keyword command the fallback is used only when the path resolves
\* to nothing: main_keyword, search_volume and important_keywords equal the
\* resolved value whenever there is one, 0, "" and [] included, and are the
\* keyword argument, 'unknown' and [] only when there is none.
C22_FallbackOnlyWhenAbsent ==
    (GotPayload /\ args.fn = "cmd_keyword")
    => \A field \in {"main_keyword", "search_volume", "important_keywords"} :
          IsMapped(field) =>
             /\ ret = Num(0)
             /\ DictGet(Printed, <<field>>) =
                  IF Resolved(field) # None THEN Resolved(field) ELSE KeywordFallback(field)

\* the same for the payloads in which no mapped path resolves to 0, "", [] or {}
C22_ResolvedValuesNotEmpty ==
    (/\ GotPayload /\ args.fn = "cmd_keyword"
     /\ \A field \in {"main_keyword", "search_volume", "important_keywords"} :
           IsMapped(field) => (Resolved(field) = None \/ Truthy(Resolved(field))))
    => \A field \in {"main_keyword", "search_volume", "important_keywords"} :
          IsMapped(field) =>
             /\ ret = Num(0)
             /\ DictGet(Printed, <<field>>) =
                  IF Resolved(field) # None THEN Resolved(field) ELSE KeywordFallback(field)

\* the output fields of a command, each with the key it has in the printed object
\* and the value it has when it is absent
OutputFields ==
    CASE args.fn = "cmd_keyword" ->
            { [field |-> f, key |-> f, absent |-> KeywordFallback(f)] :
                f \in {"main_keyword", "search_volume", "competition", "top_urls",
                       "important_keywords"} }
      [] args.fn = "cmd_kpis" ->
            { [field |-> f, key |-> f, absent |-> None] :
                f \in {"ranking_index", "top_10_count", "top_100_count", "average_position"} }
      [] args.fn = "cmd_rankings" ->
            { [field |-> "keywords", key |-> "rankings", absent |-> List(<<>>)] }
      [] args.fn = "cmd_prospects" ->
            { [field |-> "prospects", key |-> "prospects", absent |-> List(<<>>)] }

\* C23: an output field with no entry in the response-field map is absent in the
\* result: null for cmd_kpis, the fallback default for cmd_keyword, cmd_rankings and
\* cmd_prospects; the raw payload is never reported as its value.
C23_UnmappedFieldIsAbsent ==
    GotPayload
    => \A f \in OutputFields :
          ~IsMapped(f.field) =>
             /\ ret = Num(0)
             /\ stdout # <<>>
             /\ DictGet(Printed, <<f.key>>) = f.absent

====
